---- MODULE Spec2Model ----
(***************************************************************************)
(* Model of frescobaldi_app/ly/pitch/__init__.py: the per-language pitch   *)
(* name table, the PitchReader / PitchWriter codecs and their caches, the   *)
(* absolute/relative octave arithmetic of Pitch, and the PitchIterator      *)
(* (tokens(), pitches(), write()).                                          *)
(*                                                                          *)
(* Conventions.                                                             *)
(*  - Python strings are TLA+ strings; Len, \o and SubSeq act on them.      *)
(*  - Python sequences are 0-based, TLA+ sequences 1-based: names[note] is  *)
(*    names[note + 1] here.                                                 *)
(*  - An alteration is a Fraction with denominator 4 in the code; the model *)
(*    keeps its numerator (alter = -4 .. 4 stands for -1 .. +1), so that    *)
(*    int(alter * 4 + 4) is alter + 4.                                      *)
(*  - None / False / "no entry" is the empty sequence <<>>, a present value *)
(*    v is <<v>> (TLC cannot compare an integer with a string).             *)
(***************************************************************************)
EXTENDS Integers, Sequences, FiniteSets, TLC

VARIABLES
    pitchReaders,   \* _pitchReaders: language -> <<>> | <<PitchReader instance>>
    pitchWriters,   \* _pitchWriters: language -> <<>> | <<PitchWriter instance>>
    call,           \* the last codec call and what it returned
    callLangs,      \* the languages this run's callers ask the codecs for
    arith,          \* a Pitch p, the previous pitch, and the octave operations applied
    conv,           \* an octave number, an octave string, and the conversions applied
    source,         \* PitchIterator.source: the classified tokens, single pass
    srcPos,         \* how many tokens of source the iterator has handed out
    tokPc,          \* where the tokens() generator is suspended
    language,       \* PitchIterator.language
    pitPc,          \* where the pitches() generator is suspended
    pitTok,         \* pitches(): the local t at the suspension point (<<>> is None)
    out,            \* everything pitches() has yielded so far, in order
    lastWrite,      \* the most recent write() call: its arguments and buffer operations
    langCall        \* the most recent setLanguage() call made by a caller

codecVars == <<pitchReaders, pitchWriters, call, callLangs>>
arithVars == <<arith, conv>>
scanVars  == <<source, srcPos, tokPc, language, pitPc, pitTok, out, lastWrite,
               langCall>>
vars      == <<pitchReaders, pitchWriters, call, callLangs, arith, conv,
               source, srcPos, tokPc, language, pitPc, pitTok, out, lastWrite,
               langCall>>

None == <<>>
Some(v) == <<v>>

(***************************************************************************)
(* String helpers: str.startswith, slicing from an offset, str.replace.    *)
(***************************************************************************)
StartsWith(s, p) == Len(p) <= Len(s) /\ SubSeq(s, 1, Len(p)) = p

EndsWith(s, p) == Len(p) <= Len(s) /\ SubSeq(s, Len(s) - Len(p) + 1, Len(s)) = p

\* s[n:]
DropFirst(s, n) == IF n >= Len(s) THEN "" ELSE SubSeq(s, n + 1, Len(s))

\* s[:-n]
DropLast(s, n) == IF n >= Len(s) THEN "" ELSE SubSeq(s, 1, Len(s) - n)

\* s.replace(old, new): every non-overlapping occurrence, left to right
RECURSIVE StrReplace(_, _, _)
StrReplace(s, old, new) ==
    IF Len(s) < Len(old) THEN s
    ELSE IF StartsWith(s, old)
         THEN new \o StrReplace(DropFirst(s, Len(old)), old, new)
         ELSE SubSeq(s, 1, 1) \o StrReplace(DropFirst(s, 1), old, new)

\* list.index(x): the 0-based position of the first element equal to x
ListIndex(seq, x) ==
    (CHOOSE i \in 1..Len(seq) :
        seq[i] = x /\ \A j \in 1..(i - 1) : seq[j] # x) - 1

(***************************************************************************)
(* pitchInfo: language -> (names, accs, replacements).  The three aliases  *)
(* are bound to the tuple of the language they alias.                       *)
(***************************************************************************)
NoteNamesC  == <<"c", "d", "e", "f", "g", "a", "b">>
NoteNamesH  == <<"c", "d", "e", "f", "g", "a", "h">>
NoteNamesDo == <<"do", "re", "mi", "fa", "sol", "la", "si">>

pitchInfoLiteral ==
    [ nederlands |->
        [names |-> NoteNamesC,
         accs |-> <<"eses", "eseh", "es", "eh", "", "ih", "is", "isih", "isis">>,
         replacements |-> << <<"ees", "es">>, <<"aes", "as">> >>],
      english |->
        [names |-> NoteNamesC,
         accs |-> <<"ff", "tqf", "f", "qf", "", "qs", "s", "tqs", "ss">>,
         replacements |-> << >>],
      deutsch |->
        [names |-> NoteNamesH,
         accs |-> <<"eses", "eseh", "es", "eh", "", "ih", "is", "isih", "isis">>,
         replacements |-> << <<"ees", "es">>, <<"aes", "as">>, <<"hes", "b">> >>],
      svenska |->
        [names |-> NoteNamesH,
         accs |-> <<"essess", "", "ess", "", "", "", "iss", "", "ississ">>,
         replacements |-> << <<"ees", "es">>, <<"aes", "as">>, <<"hess", "b">> >>],
      italiano |->
        [names |-> NoteNamesDo,
         accs |-> <<"bb", "bsb", "b", "sb", "", "sd", "d", "dsd", "dd">>,
         replacements |-> << >>],
      espanol |->
        [names |-> NoteNamesDo,
         accs |-> <<"bb", "", "b", "", "", "", "s", "", "ss">>,
         replacements |-> << >>],
      portugues |->
        [names |-> NoteNamesDo,
         accs |-> <<"bb", "btqt", "b", "bqt", "", "sqt", "s", "stqt", "ss">>,
         replacements |-> << >>],
      vlaams |->
        [names |-> NoteNamesDo,
         accs |-> <<"bb", "", "b", "", "", "", "k", "", "kk">>,
         replacements |-> << >>] ]

Languages ==
    {"nederlands", "english", "deutsch", "svenska", "italiano", "espanol",
     "portugues", "vlaams", "norsk", "suomi", "catalan"}

\* the table as it would be with catalan bound to espanol's entry
pitchInfoCatalanAsEspanol ==
    [l \in Languages |->
        IF l \in {"norsk", "suomi"} THEN pitchInfoLiteral["deutsch"]
        ELSE IF l = "catalan" THEN pitchInfoLiteral["espanol"]
        ELSE pitchInfoLiteral[l]]

\* pitchInfo after the three alias assignments
pitchInfo ==
    [l \in Languages |->
        IF l \in {"norsk", "suomi"} THEN pitchInfoLiteral["deutsch"]
        ELSE IF l = "catalan" THEN pitchInfoLiteral["italiano"]
        ELSE pitchInfoLiteral[l]]

(***************************************************************************)
(* PitchWriter                                                             *)
(***************************************************************************)
\* PitchWriter(*pitchInfo[language]); the class attribute language is "unknown"
NewPitchWriter(info) ==
    [language |-> "unknown", names |-> info.names, accs |-> info.accs,
     replacements |-> info.replacements]

\* for s, r in self.replacements: if pitch.startswith(s): pitch = r + ...; break
RECURSIVE WriterReplace(_, _, _)
WriterReplace(replacements, k, pitch) ==
    IF k > Len(replacements) THEN pitch
    ELSE IF StartsWith(pitch, replacements[k][1])
         THEN replacements[k][2] \o DropFirst(pitch, Len(replacements[k][1]))
         ELSE WriterReplace(replacements, k + 1, pitch)

Returned(v) == [exc |-> None, ret |-> v]
\* raise PitchNameNotAvailable(language)
Raised(lang) == [exc |-> Some(lang), ret |-> ""]

\* PitchWriter.__call__(note, alter)
PitchWriterCall(w, note, alter) ==
    IF alter # 0 /\ w.accs[alter + 4 + 1] = ""
    THEN Raised(w.language)
    ELSE Returned(WriterReplace(w.replacements, 1,
            IF alter # 0 THEN w.names[note + 1] \o w.accs[alter + 4 + 1]
                         ELSE w.names[note + 1]))

(***************************************************************************)
(* PitchReader                                                             *)
(***************************************************************************)
\* PitchReader(*pitchInfo[language]); rx is compiled from names and accs
NewPitchReader(info) ==
    [names |-> info.names, accs |-> info.accs, replacements |-> info.replacements]

\* the reader's loop as it would be with the pairs taken the writer's way
\* round (s replaced by r): the writer's respelling is not undone
RECURSIVE ReaderReplaceAsWriter(_, _, _)
ReaderReplaceAsWriter(replacements, k, text) ==
    IF k > Len(replacements) THEN text
    ELSE ReaderReplaceAsWriter(replacements, k + 1,
            IF StartsWith(text, replacements[k][1])
            THEN replacements[k][2] \o DropFirst(text, Len(replacements[k][1]))
            ELSE text)

\* the reader's loop as it would be with text = text.replace(r, s): the short
\* form is rewritten wherever it stands, by every rule in turn
RECURSIVE ReaderReplaceAnywhere(_, _, _)
ReaderReplaceAnywhere(replacements, k, text) ==
    IF k > Len(replacements) THEN text
    ELSE ReaderReplaceAnywhere(replacements, k + 1,
            StrReplace(text, replacements[k][2], replacements[k][1]))

\* for s, r in self.replacements: if text.startswith(r): text = s + text[len(r):]
\* (no break: every rule is tried, each on the text the previous ones left)
RECURSIVE ReaderReplace(_, _, _)
ReaderReplace(replacements, k, text) ==
    IF k > Len(replacements) THEN text
    ELSE ReaderReplace(replacements, k + 1,
            IF StartsWith(text, replacements[k][2])
            THEN replacements[k][1] \o DropFirst(text, Len(replacements[k][2]))
            ELSE text)

\* self.rx.match(text) for rx = "(n1|...|n7)(a1|...)?$", the accidental
\* alternatives being the non-empty entries of accs.  The match is anchored at
\* both ends, so the backtracking matcher settles on the first note name that
\* is a prefix of text and whose remainder is empty (group 2 unset) or is one
\* of the accidentals (group 2).  <<>> is no match, else <<group 1, group 2>>
\* with "" for an unset group 2.  ($ also matches before a final newline; no
\* text here ends in one.)
RxFits(r, text, i) ==
    /\ StartsWith(text, r.names[i])
    /\ \/ DropFirst(text, Len(r.names[i])) = ""
       \/ \E j \in 1..Len(r.accs) :
             r.accs[j] # "" /\ r.accs[j] = DropFirst(text, Len(r.names[i]))

RxFirst(r, text, hits) ==
    IF hits = {} THEN None
    ELSE <<r.names[CHOOSE h \in hits : \A g \in hits : h <= g],
           DropFirst(text, Len(r.names[CHOOSE h \in hits : \A g \in hits : h <= g]))>>

RxMatch(r, text) == RxFirst(r, text, {i \in 1..Len(r.names) : RxFits(r, text, i)})

\* the result of one successful match: (note, alter)
ReaderResult(r, m) ==
    <<ListIndex(r.names, m[1]),
      IF m[2] # "" THEN ListIndex(r.accs, m[2]) - 4 ELSE 0>>

\* for dummy in 1, 2: m = self.rx.match(text); if m: return ...; text = ...
\* The second replace pass changes nothing (no "flat" or "sharp" is left), so
\* the loop is one match on text and one on the rewritten text.
ReaderMatch(r, text, m1) ==
    IF m1 # None THEN ReaderResult(r, m1)
    ELSE IF RxMatch(r, StrReplace(StrReplace(text, "flat", "f"), "sharp", "s")) # None
         THEN ReaderResult(r,
                RxMatch(r, StrReplace(StrReplace(text, "flat", "f"), "sharp", "s")))
         ELSE None

ReaderLoop(r, text) == ReaderMatch(r, text, RxMatch(r, text))

\* the reader as it would be without the replacements loop
PitchReaderCallUnrewritten(r, text) == ReaderLoop(r, text)

\* PitchReader.__call__(text): (note, alter), or <<>> for False
PitchReaderCall(r, text) == ReaderLoop(r, ReaderReplace(r.replacements, 1, text))

(***************************************************************************)
(* The codec caches and the codec calls (specification SpecCodec).         *)
(***************************************************************************)
\* the sets of languages one run's callers may ask for
LangGroups == {{l} : l \in Languages}

\* callers that use an alias and the language it was bound to
AliasGroups == {{"norsk", "deutsch"}, {"suomi", "deutsch"}, {"catalan", "italiano"}}

Notes  == 0..6
Alters == -4..4

\* spellings handed to the readers besides the ones the writers produce
Spellings ==
    {"c", "es", "as", "ees", "aes", "b", "h", "bes", "heses", "ases", "ess",
     "cis", "cqs", "ef", "eflat", "csharp", "do", "sold", "sib", "solbb",
     "x", "flat", ""}

EmptyCache == [l \in Languages |-> None]

Cached(cache) == {l \in Languages : cache[l] # None}

\* pitchWriter as it would be without res.language = language: the instance
\* keeps the class attribute
pitchWriterUnnamed(cache, lang) ==
    IF cache[lang] # None
    THEN [inst |-> cache[lang][1], cache |-> cache]
    ELSE [inst |-> NewPitchWriter(pitchInfo[lang]),
          cache |-> [cache EXCEPT ![lang] = Some(NewPitchWriter(pitchInfo[lang]))]]

\* pitchWriter(language): the cached instance, or a new one put in the cache.
\* Gives the instance and the cache afterwards.
pitchWriter(cache, lang) ==
    IF cache[lang] # None
    THEN [inst |-> cache[lang][1], cache |-> cache]
    ELSE LET res == [NewPitchWriter(pitchInfo[lang]) EXCEPT !.language = lang]
         IN  [inst |-> res, cache |-> [cache EXCEPT ![lang] = Some(res)]]

\* pitchReader(language)
pitchReader(cache, lang) ==
    IF cache[lang] # None
    THEN [inst |-> cache[lang][1], cache |-> cache]
    ELSE LET res == NewPitchReader(pitchInfo[lang])
         IN  [inst |-> res, cache |-> [cache EXCEPT ![lang] = Some(res)]]

NoCall ==
    [op |-> "none", language |-> "", note |-> 0, alter |-> 0, text |-> "",
     written |-> Returned(""), rewritten |-> "", decoded |-> None]

\* pitchWriter(lang)(note, alter)
Encode(lang, note, alter) ==
    /\ lang \in callLangs
    /\ LET w == pitchWriter(pitchWriters, lang)
       IN  /\ pitchWriters' = w.cache
           /\ call' = [NoCall EXCEPT !.op = "write", !.language = lang,
                                     !.note = note, !.alter = alter,
                                     !.written = PitchWriterCall(w.inst, note, alter)]
    /\ UNCHANGED <<pitchReaders, callLangs, arithVars, scanVars>>

\* pitchReader(lang)(text)
Decode(lang, text) ==
    /\ lang \in callLangs
    /\ LET r == pitchReader(pitchReaders, lang)
       IN  /\ pitchReaders' = r.cache
           /\ call' = [NoCall EXCEPT !.op = "read", !.language = lang, !.text = text,
                                     !.rewritten =
                                         ReaderReplace(r.inst.replacements, 1, text),
                                     !.decoded = PitchReaderCall(r.inst, text)]
    /\ UNCHANGED <<pitchWriters, callLangs, arithVars, scanVars>>

\* pitchReader(lang)(pitchWriter(lang)(note, alter)): the spelling the last
\* call wrote is read back in the same language
DecodeWritten ==
    /\ call.op = "write"
    /\ call.written.exc = None
    /\ LET r == pitchReader(pitchReaders, call.language)
       IN  /\ pitchReaders' = r.cache
           /\ call' = [call EXCEPT !.op = "roundtrip", !.text = call.written.ret,
                                   !.rewritten =
                                       ReaderReplace(r.inst.replacements, 1,
                                                     call.written.ret),
                                   !.decoded = PitchReaderCall(r.inst, call.written.ret)]
    /\ UNCHANGED <<pitchWriters, callLangs, arithVars, scanVars>>

(***************************************************************************)
(* Pitch and the octave arithmetic (specification SpecArith).              *)
(***************************************************************************)
\* Pitch(note, alter, octave)
Pitch(note, alter, octave) == [note |-> note, alter |-> alter, octave |-> octave]

\* x / 7 rounded towards zero, as a truncating division would give
TruncDiv7(x) == IF x >= 0 THEN x \div 7 ELSE 0 - ((0 - x) \div 7)

\* makeAbsolute as it would be with a truncating division
makeAbsoluteTruncating(self, lastPitch) ==
    [self EXCEPT !.octave =
        self.octave + (lastPitch.octave - TruncDiv7(self.note - lastPitch.note + 3))]

\* Pitch.makeAbsolute(lastPitch); // is floored division, as \div is
makeAbsolute(self, lastPitch) ==
    [self EXCEPT !.octave =
        self.octave + (lastPitch.octave - ((self.note - lastPitch.note + 3) \div 7))]

\* makeRelative as it would be with a truncating division
makeRelativeTruncating(self, lastPitch) ==
    [self EXCEPT !.octave =
        self.octave - (lastPitch.octave - TruncDiv7(self.note - lastPitch.note + 3))]

\* Pitch.makeRelative(lastPitch)
makeRelative(self, lastPitch) ==
    [self EXCEPT !.octave =
        self.octave - (lastPitch.octave - ((self.note - lastPitch.note + 3) \div 7))]

\* c * n for a one-character string c
RECURSIVE StrTimes(_, _)
StrTimes(c, n) == IF n <= 0 THEN "" ELSE c \o StrTimes(c, n - 1)

\* s.count(c) for a one-character string c
RECURSIVE StrCount(_, _)
StrCount(s, c) ==
    IF Len(s) = 0 THEN 0
    ELSE (IF SubSeq(s, 1, 1) = c THEN 1 ELSE 0) + StrCount(DropFirst(s, 1), c)

\* octaveToString as it would be with raise marks only
octaveToStringRaising(octave) == StrTimes("'", octave)

\* octaveToString(octave): octave < 0 and ',' * -octave or "'" * octave
octaveToString(octave) ==
    IF octave < 0 THEN StrTimes(",", 0 - octave) ELSE StrTimes("'", octave)

\* octaveToNum(octave)
octaveToNum(s) == StrCount(s, "'") - StrCount(s, ",")

\* the octaves the model starts pitches in: -MaxOct .. MaxOct
MaxOct == 2
\* how many octave operations the model applies to one pitch
MaxOps == 2

ArithPitches ==
    {Pitch(n, a, o) : n \in Notes, a \in {-2, 0}, o \in (0 - MaxOct)..MaxOct}

NoArith ==
    [p |-> Pitch(0, 0, 0), prev |-> Pitch(0, 0, 0),
     p0 |-> Pitch(0, 0, 0), prev0 |-> Pitch(0, 0, 0), ops |-> << >>]

\* p.makeAbsolute(prev)
MakeAbsolute ==
    /\ Len(arith.ops) < MaxOps
    /\ arith' = [arith EXCEPT !.p = makeAbsolute(arith.p, arith.prev),
                              !.ops = Append(@, "abs")]
    /\ UNCHANGED <<conv, codecVars, scanVars>>

\* p.makeRelative(prev)
MakeRelative ==
    /\ Len(arith.ops) < MaxOps
    /\ arith' = [arith EXCEPT !.p = makeRelative(arith.p, arith.prev),
                              !.ops = Append(@, "rel")]
    /\ UNCHANGED <<conv, codecVars, scanVars>>

(***************************************************************************)
(* The octave conversions (specification SpecOctave).                      *)
(***************************************************************************)
\* the longest octave string, and the largest octave number either way, the
\* model hands to the conversions
MaxMarks == 4

\* the strings of at most n octave marks, raise and lower marks mixed freely
RECURSIVE MarkStrings(_)
MarkStrings(n) ==
    IF n = 0 THEN {""}
    ELSE MarkStrings(n - 1)
            \cup {c \o m : c \in {"'", ","}, m \in MarkStrings(n - 1)}

NoConv == [n |-> 0, s |-> "", num |-> 0, ops |-> << >>]

\* s = octaveToString(n)
OctaveToString ==
    /\ conv.ops = << >>
    /\ conv' = [conv EXCEPT !.s = octaveToString(conv.n), !.ops = <<"str">>]
    /\ UNCHANGED <<arith, codecVars, scanVars>>

\* num = octaveToNum(s), of the caller's string or of the one just produced
OctaveToNum ==
    /\ conv.ops \in {<< >>, <<"str">>}
    /\ conv' = [conv EXCEPT !.num = octaveToNum(conv.s), !.ops = Append(@, "num")]
    /\ UNCHANGED <<arith, codecVars, scanVars>>

(***************************************************************************)
(* The token source.  A token is its class (what isinstance tells), its    *)
(* text (a token is a str), and its pos and end offsets.                    *)
(***************************************************************************)
Token(cls, text, pos) ==
    [cls |-> cls, text |-> text, pos |-> pos, end |-> pos + Len(text)]

\* LanguageName(lang, pos)
LanguageName(lang, pos) == Token("LanguageName", lang, pos)

\* the longest token stream the model scans
MaxLen == 3

\* the classified tokens the streams are made of
Alphabet ==
    << <<"Note", "c">>, <<"Note", "h">>, <<"Note", "ees">>,
       <<"Octave", "'">>, <<"OctaveCheck", "='">>,
       <<"Space", " ">>, <<"Accidental", "!">>,
       <<"Keyword", "\\language">>, <<"Keyword", "\\include">>,
       <<"StringQuotedStart", "\"">>,
       <<"String", "deutsch">>, <<"String", "english.ly">> >>

RECURSIVE OffsetOf(_, _)
OffsetOf(f, k) ==
    IF k <= 1 THEN 0 ELSE OffsetOf(f, k - 1) + Len(Alphabet[f[k - 1]][2])

\* the token stream spelled by the sequence f of alphabet indices
MkSource(f) ==
    [k \in 1..Len(f) |-> Token(Alphabet[f[k]][1], Alphabet[f[k]][2], OffsetOf(f, k))]

\* the token streams of at most n tokens
SourcesUpTo(n) ==
    {MkSource(f) : f \in UNION {[1..m -> 1..Len(Alphabet)] : m \in 0..n}}

Sources == SourcesUpTo(MaxLen)

\* the longest token stream of the scans in which the caller sets the
\* language itself
MaxLangLen == 2

(***************************************************************************)
(* PitchIterator.setLanguage and PitchIterator.tokens().  The generator is *)
(* suspended at one of its yields: "outer" (yield t of the outer loop),     *)
(* "lang" (yield t of the loop after a directive keyword), "marker" (yield  *)
(* LanguageName), or it has not started ("start") or has returned ("done"). *)
(* Both loops draw from the one iterator self.source (pos tokens taken).    *)
(***************************************************************************)
\* setLanguage as it would be without the test lang in pitchInfo.keys()
setLanguageUntested(cur, lang) == [language |-> lang, ret |-> TRUE]

\* setLanguage as it would be without the assignment self.language = lang
setLanguageUnassigned(cur, lang) ==
    IF lang \in DOMAIN pitchInfo
    THEN [language |-> IF cur = "" THEN lang ELSE cur, ret |-> TRUE]
    ELSE [language |-> cur, ret |-> FALSE]

\* setLanguage(lang): the language afterwards and the value returned
setLanguage(cur, lang) ==
    IF lang \in DOMAIN pitchInfo
    THEN [language |-> lang, ret |-> TRUE]
    ELSE [language |-> cur, ret |-> FALSE]

TokState(pos, pc, lang) == [pos |-> pos, pc |-> pc, language |-> lang]

\* the outer loop as it would be if a directive took effect when its keyword
\* is drawn: the language named right after the keyword is set before the
\* keyword is yielded
TokensOuterEager(src, st) ==
    IF st.pos >= Len(src)
    THEN [item |-> None, st |-> TokState(st.pos, "done", st.language)]
    ELSE [item |-> Some(src[st.pos + 1]),
          st |-> TokState(st.pos + 1, "outer",
                    IF /\ src[st.pos + 1].cls = "Keyword"
                       /\ src[st.pos + 1].text \in {"\\include", "\\language"}
                       /\ st.pos + 2 <= Len(src)
                       /\ src[st.pos + 2].text \in DOMAIN pitchInfo
                    THEN src[st.pos + 2].text
                    ELSE st.language)]

\* for t in self.source: yield t        (outer loop)
TokensOuter(src, st) ==
    IF st.pos >= Len(src)
    THEN [item |-> None, st |-> TokState(st.pos, "done", st.language)]
    ELSE [item |-> Some(src[st.pos + 1]),
          st |-> TokState(st.pos + 1, "outer", st.language)]

\* the language name as it would be taken without stripping '.ly'
LangOfUnstripped(text) == text

\* lang = t[:-3] if t.endswith('.ly') else t[:]
LangOf(text) == IF EndsWith(text, ".ly") THEN DropLast(text, 3) ELSE text

\* the directive as it would be if a name that does not resolve were yielded
\* as plain text instead of being dropped
TokensSetLanguageReemit(src, st, t, lang, set) ==
    IF set.ret
    THEN [item |-> Some(LanguageName(lang, t.pos)),
          st |-> TokState(st.pos + 1, "marker", set.language)]
    ELSE [item |-> Some(t), st |-> TokState(st.pos + 1, "marker", st.language)]

\* if self.setLanguage(lang): yield LanguageName(lang, t.pos)
\* break
TokensSetLanguage(src, st, t, lang, set) ==
    IF set.ret
    THEN [item |-> Some(LanguageName(lang, t.pos)),
          st |-> TokState(st.pos + 1, "marker", set.language)]
    ELSE TokensOuter(src, TokState(st.pos + 1, "outer", st.language))

\* the body of the loop after \include or \language, for its token t
TokensLangBody(src, st, t) ==
    IF t.cls # "Space" /\ t.text # "\""
    THEN TokensSetLanguage(src, st, t, LangOf(t.text),
                           setLanguage(st.language, LangOf(t.text)))
    ELSE [item |-> Some(t), st |-> TokState(st.pos + 1, "lang", st.language)]

\* for t in self.source: ...            (loop after \include or \language)
\* When the source ends here the outer loop finds it ended too.
TokensLang(src, st) ==
    IF st.pos >= Len(src)
    THEN TokensOuter(src, st)
    ELSE TokensLangBody(src, st, src[st.pos + 1])

\* next(self.tokens()): the item yielded (<<>> at StopIteration) and the
\* generator's state afterwards
TokensNext(src, st) ==
    CASE st.pc = "start"  -> TokensOuter(src, st)
      [] st.pc = "outer"  ->
            IF /\ src[st.pos].cls = "Keyword"
               /\ src[st.pos].text \in {"\\include", "\\language"}
            THEN TokensLang(src, st)
            ELSE TokensOuter(src, st)
      [] st.pc = "lang"   -> TokensLang(src, st)
      [] st.pc = "marker" -> TokensOuter(src, st)
      [] OTHER            -> [item |-> None, st |-> st]

(***************************************************************************)
(* PitchIterator.pitches().  The generator is suspended at "pitch" (yield  *)
(* p, with the local t the token the inner loop stopped on, or None) or at  *)
(* "token" (yield t of the while loop's else clause), or it has not started *)
(* ("start") or has returned ("done").                                      *)
(*                                                                          *)
(* An item of out is what was yielded: kind "token" with the token in tok,  *)
(* or kind "pitch" with the Pitch in pitch and its noteToken in tok.  Two   *)
(* fields are the model's record of how a pitch came about and are not      *)
(* attributes of the Pitch: absorbed, the tokens the inner loop took in its *)
(* Octave, OctaveCheck and Space/Accidental branches, preceded by the note  *)
(* token; and lang, self.language when the note token was read.             *)
(***************************************************************************)
\* p = Pitch(*p) and the attributes set on it before the inner loop
ScannedPitch(p, t) ==
    [note |-> p[1], alter |-> p[2], octave |-> 0,
     noteToken |-> t, origOctave |-> 0, octaveSlice |-> <<t.end, t.end>>,
     octaveCheck |-> None, origOctaveCheck |-> None, octaveCheckSlice |-> None]

TokenItem(t, lang) ==
    [kind |-> "token", tok |-> t, pitch |-> None, absorbed |-> << >>, lang |-> lang]

PitchItem(p, absorbed, lang) ==
    [kind |-> "pitch", tok |-> p.noteToken, pitch |-> Some(p),
     absorbed |-> absorbed, lang |-> lang]

\* t = None; for t in tokens: ...       (the inner loop of pitches())
\* PitchesInner draws the next token, PitchesInnerBody is the loop body for
\* the token u; the result is the pitch, the local t, the tokens() state and
\* the tokens absorbed when the loop is left.
RECURSIVE PitchesInner(_, _, _, _, _)
RECURSIVE PitchesInnerBody(_, _, _, _, _)
RECURSIVE PitchesInnerNext(_, _, _, _, _)
PitchesInner(src, p, t, st, absorbed) ==
    PitchesInnerNext(src, p, t, absorbed, TokensNext(src, st))

PitchesInnerNext(src, p, t, absorbed, n) ==
    IF n.item = None
    THEN [p |-> p, t |-> t, st |-> n.st, absorbed |-> absorbed]
    ELSE PitchesInnerBody(src, p, n.item[1], n.st, absorbed)

PitchesInnerBody(src, p, u, st, absorbed) ==
    IF u.cls = "Octave"
    THEN PitchesInner(src,
            [p EXCEPT !.octave = octaveToNum(u.text),
                      !.origOctave = octaveToNum(u.text),
                      !.octaveSlice = <<u.pos, u.end>>],
            Some(u), st, Append(absorbed, u))
    ELSE IF u.cls = "OctaveCheck"
    THEN [p |-> [p EXCEPT !.octaveCheck = Some(octaveToNum(u.text)),
                          !.origOctaveCheck = Some(octaveToNum(u.text)),
                          !.octaveCheckSlice = Some(<<u.pos, u.end>>)],
          t |-> Some(u), st |-> st, absorbed |-> Append(absorbed, u)]
    ELSE IF u.cls \notin {"Space", "Accidental"}
    THEN [p |-> p, t |-> Some(u), st |-> st, absorbed |-> absorbed]
    ELSE PitchesInner(src, p, Some(u), st, Append(absorbed, u))

\* the yield as it would be with the test `if t is None: break` placed before
\* `yield p`: a note the source ends on is not yielded
PitchesYieldAfterTest(d, lang, readers) ==
    IF d.t = None
    THEN [item |-> None, pc |-> "done", t |-> None, st |-> d.st, readers |-> readers]
    ELSE [item |-> Some(PitchItem(d.p, d.absorbed, lang)),
          pc |-> "pitch", t |-> d.t, st |-> d.st, readers |-> readers]

\* yield p, with d what the inner loop left
PitchesYield(d, lang, readers) ==
    [item |-> Some(PitchItem(d.p, d.absorbed, lang)),
     pc |-> "pitch", t |-> d.t, st |-> d.st, readers |-> readers]

\* PitchesFor: for t in tokens: <while ... else ...>, run up to the next yield.
\* PitchesWhile: while isinstance(t, Note): ... else: yield t, entered with t.
\* Each gives the item yielded (<<>> when the generator returns), the
\* suspension point, the local t, the tokens() state and the reader cache.
RECURSIVE PitchesFor(_, _, _)
RECURSIVE PitchesForNext(_, _, _)
RECURSIVE PitchesWhile(_, _, _, _)
RECURSIVE PitchesRead(_, _, _, _, _)
PitchesFor(src, st, readers) == PitchesForNext(src, readers, TokensNext(src, st))

PitchesForNext(src, readers, n) ==
    IF n.item = None
    THEN [item |-> None, pc |-> "done", t |-> None, st |-> n.st,
          readers |-> readers]
    ELSE PitchesWhile(src, n.item[1], n.st, readers)

\* p = self.read(t), with the reader cache after the call; if not p: break
\* leaves the while loop past its else clause, so nothing is yielded for t
PitchesRead(src, t, st, readers, p) ==
    IF p = None
    THEN PitchesFor(src, st, readers)
    ELSE PitchesYield(PitchesInner(src, ScannedPitch(p, t), None, st, <<t>>),
                      st.language, readers)

PitchesWhile(src, t, st, readers) ==
    IF t.cls = "Note"
    THEN PitchesRead(src, t, st, pitchReader(readers, st.language).cache,
                     PitchReaderCall(pitchReader(readers, st.language).inst, t.text))
    ELSE [item |-> Some(TokenItem(t, st.language)), pc |-> "token", t |-> Some(t),
          st |-> st, readers |-> readers]

(***************************************************************************)
(* PitchIterator.write(pitch, document, language): the operations on the   *)
(* document, in order, or the exception of the writer.                      *)
(***************************************************************************)
Replace(slice, text) ==
    [op |-> "replace", start |-> slice[1], stop |-> slice[2], text |-> text]

Delete(slice) ==
    [op |-> "delete", start |-> slice[1], stop |-> slice[2], text |-> ""]

\* the edits as they would be with the octave written before the note and
\* without the test pitch.octave != pitch.origOctave
WriteOpsOctaveFirst(pitch, note) ==
    <<Replace(pitch.octaveSlice, octaveToString(pitch.octave))>>
    \o
    (IF note # pitch.noteToken.text
     THEN <<Replace(<<pitch.noteToken.pos, pitch.noteToken.end>>, note)>>
     ELSE << >>)
    \o
    (IF pitch.origOctaveCheck # None
     THEN IF pitch.octaveCheck = None
          THEN <<Delete(pitch.octaveCheckSlice[1])>>
          ELSE <<Replace(pitch.octaveCheckSlice[1],
                         "=" \o octaveToString(pitch.octaveCheck[1]))>>
     ELSE << >>)

\* the three edits of write(), given the spelling note the writer returned
WriteOps(pitch, note) ==
    (IF note # pitch.noteToken.text
     THEN <<Replace(<<pitch.noteToken.pos, pitch.noteToken.end>>, note)>>
     ELSE << >>)
    \o
    (IF pitch.octave # pitch.origOctave
     THEN <<Replace(pitch.octaveSlice, octaveToString(pitch.octave))>>
     ELSE << >>)
    \o
    (IF pitch.origOctaveCheck # None
     THEN IF pitch.octaveCheck = None
          THEN <<Delete(pitch.octaveCheckSlice[1])>>
          ELSE <<Replace(pitch.octaveCheckSlice[1],
                         "=" \o octaveToString(pitch.octaveCheck[1]))>>
     ELSE << >>)

\* write() as it would be with the octave edits issued before the spelling is
\* encoded: the edits are on the buffer when the writer raises
WriteWithEditsFirst(pitch, w, note) ==
    IF note.exc # None
    THEN [exc |-> note.exc, ops |-> WriteOps(pitch, pitch.noteToken.text),
          writers |-> w.cache]
    ELSE [exc |-> None, ops |-> WriteOps(pitch, note.ret), writers |-> w.cache]

\* note = pwriter(pitch.note, pitch.alter) and the rest of write(); an
\* exception of the writer leaves write() at once
WriteWith(pitch, w, note) ==
    IF note.exc # None
    THEN [exc |-> note.exc, ops |-> << >>, writers |-> w.cache]
    ELSE [exc |-> None, ops |-> WriteOps(pitch, note.ret), writers |-> w.cache]

WriteIn(pitch, w) == WriteWith(pitch, w, PitchWriterCall(w.inst, pitch.note, pitch.alter))

\* target is the language argument (<<>> for None); lang is self.language:
\* pwriter = pitchWriter(language or self.language)
write(pitch, lang, target, writers) ==
    WriteIn(pitch, pitchWriter(writers,
                IF target # None /\ target[1] # "" THEN target[1] ELSE lang))

(***************************************************************************)
(* The scan: a caller pulling items from pitches() and writing pitches     *)
(* back (specification Spec).                                               *)
(***************************************************************************)
NoWrite ==
    [called |-> FALSE, item |-> 0, pitch |-> None, edit |-> None, target |-> None,
     language |-> "", exc |-> None, ops |-> << >>]

\* what a caller does to a yielded pitch before writing it: note moved by
\* e.note steps, alter set to e.alter, octave moved by e.octave, and
\* octaveCheck kept, cleared (None) or set
CallerEdits ==
    [note : {0, 1}, alter : {None, Some(1)}, octave : {0, 1},
     check : {"keep", "clear", "set"}]

Untouched == [note |-> 0, alter |-> None, octave |-> 0, check |-> "keep"]

Edited(p, e) ==
    [p EXCEPT !.note = (p.note + e.note) % 7,
              !.alter = IF e.alter = None THEN p.alter ELSE e.alter[1],
              !.octave = p.octave + e.octave,
              !.octaveCheck = CASE e.check = "keep"  -> p.octaveCheck
                                [] e.check = "clear" -> None
                                [] OTHER             -> Some(0 - 1)]

\* the language argument of write(): None (the default) or a language
WriteTargets == {None, Some("espanol")}

\* the generator suspends (or returns) with r
PitchesSuspend(r) ==
    /\ srcPos' = r.st.pos
    /\ tokPc' = r.st.pc
    /\ language' = r.st.language
    /\ pitPc' = r.pc
    /\ pitTok' = r.t
    /\ out' = IF r.item = None THEN out ELSE Append(out, r.item[1])
    /\ pitchReaders' = r.readers

\* next(pitches): run the generator to its next yield, or to its end.  From
\* "pitch" with t a token the while condition is tested on t; from "start",
\* "token", and from "pitch" with t None (break), the for loop goes on.
PitchesNext ==
    /\ pitPc # "done"
    /\ PitchesSuspend(
          IF pitPc = "pitch" /\ pitTok # None
          THEN PitchesWhile(source, pitTok[1], TokState(srcPos, tokPc, language),
                            pitchReaders)
          ELSE PitchesFor(source, TokState(srcPos, tokPc, language), pitchReaders))
    /\ lastWrite' = NoWrite
    /\ UNCHANGED <<source, langCall, pitchWriters, call, callLangs, arithVars>>

\* the caller's record of one write() call
Written(p, e, target, w) ==
    /\ lastWrite' = [called |-> TRUE, item |-> Len(out), pitch |-> Some(p),
                     edit |-> Some(e), target |-> target,
                     language |-> language, exc |-> w.exc, ops |-> w.ops]
    /\ pitchWriters' = w.writers

\* self.write(p, document, target): the caller edits the pitch it has just been
\* handed (edit e) and writes it back, once, before it takes the next item
Write(e, target) ==
    /\ out # << >>
    /\ out[Len(out)].kind = "pitch"
    /\ ~lastWrite.called
    /\ Written(Edited(out[Len(out)].pitch[1], e), e, target,
               write(Edited(out[Len(out)].pitch[1], e), language, target, pitchWriters))
    /\ UNCHANGED <<source, srcPos, tokPc, language, pitPc, pitTok, out, langCall,
                   pitchReaders, call, callLangs, arithVars>>

\* what a caller may hand to setLanguage: registered names and others
LanguageArgs == {"nederlands", "deutsch", "english.ly", "latin"}

NoLangCall == [called |-> FALSE, arg |-> "", before |-> "", ret |-> FALSE]

\* it.setLanguage(lang), called by the user of the iterator at any point of
\* a scan; ret is whether True was returned (None otherwise)
SetLanguage(lang) ==
    /\ language' = setLanguage(language, lang).language
    /\ langCall' = [called |-> TRUE, arg |-> lang, before |-> language,
                    ret |-> setLanguage(language, lang).ret]
    /\ UNCHANGED <<source, srcPos, tokPc, pitPc, pitTok, out, lastWrite,
                   codecVars, arithVars>>

InitCodecIdle ==
    /\ pitchReaders = EmptyCache
    /\ pitchWriters = EmptyCache
    /\ call = NoCall
    /\ callLangs = {}

InitArithIdle == arith = NoArith /\ conv = NoConv

InitScanIdle ==
    /\ source = << >>
    /\ srcPos = 0
    /\ tokPc = "start"
    /\ language = setLanguage("", "nederlands").language
    /\ pitPc = "start"
    /\ pitTok = None
    /\ out = << >>
    /\ lastWrite = NoWrite
    /\ langCall = NoLangCall

\* PitchIterator(source) for any token stream, nothing scanned yet
Init ==
    /\ InitCodecIdle
    /\ InitArithIdle
    /\ source \in Sources
    /\ srcPos = 0
    /\ tokPc = "start"
    /\ language = setLanguage("", "nederlands").language
    /\ pitPc = "start"
    /\ pitTok = None
    /\ out = << >>
    /\ lastWrite = NoWrite
    /\ langCall = NoLangCall

Next ==
    \/ PitchesNext
    \/ \E e \in CallerEdits, target \in WriteTargets : Write(e, target)

Spec == Init /\ [][Next]_vars

\* the codecs on their own: empty caches, any sequence of calls in the
\* languages of one group
InitCodec ==
    /\ pitchReaders = EmptyCache
    /\ pitchWriters = EmptyCache
    /\ call = NoCall
    /\ callLangs \in LangGroups
    /\ InitArithIdle
    /\ InitScanIdle

NextCodec ==
    \/ \E lang \in Languages, note \in Notes, alter \in Alters :
          Encode(lang, note, alter)
    \/ \E lang \in Languages, text \in Spellings : Decode(lang, text)
    \/ DecodeWritten

SpecCodec == InitCodec /\ [][NextCodec]_vars

\* the codecs asked for an alias and for its language, in any order
InitAlias ==
    /\ pitchReaders = EmptyCache
    /\ pitchWriters = EmptyCache
    /\ call = NoCall
    /\ callLangs \in AliasGroups
    /\ InitArithIdle
    /\ InitScanIdle

SpecAlias == InitAlias /\ [][NextCodec]_vars

\* the octave arithmetic on its own: any two pitches
InitArith ==
    /\ InitCodecIdle
    /\ InitScanIdle
    /\ \E p \in ArithPitches, prev \in ArithPitches :
          arith = [p |-> p, prev |-> prev, p0 |-> p, prev0 |-> prev, ops |-> << >>]
    /\ conv = NoConv

NextArith == MakeAbsolute \/ MakeRelative

SpecArith == InitArith /\ [][NextArith]_vars

\* the octave conversions on their own: any octave number and any string of
\* octave marks
InitOctave ==
    /\ InitCodecIdle
    /\ InitScanIdle
    /\ arith = NoArith
    /\ \E n \in (0 - MaxMarks)..MaxMarks, m \in MarkStrings(MaxMarks) :
          conv = [n |-> n, s |-> m, num |-> 0, ops |-> << >>]

NextOctave == OctaveToString \/ OctaveToNum

SpecOctave == InitOctave /\ [][NextOctave]_vars

(***************************************************************************)
(* A caller iterating tokens() itself (specification SpecTokens).  Every   *)
(* item is kept in out with self.language as it is when the item arrives.   *)
(***************************************************************************)
TokensSuspend(n) ==
    /\ srcPos' = n.st.pos
    /\ tokPc' = n.st.pc
    /\ language' = n.st.language
    /\ out' = IF n.item = None THEN out
              ELSE Append(out, TokenItem(n.item[1], n.st.language))

\* next(tokens)
TokensStep ==
    /\ tokPc # "done"
    /\ TokensSuspend(TokensNext(source, TokState(srcPos, tokPc, language)))
    /\ UNCHANGED <<pitPc, pitTok, lastWrite, langCall, source, codecVars, arithVars>>

NextTokens == TokensStep

SpecTokens == Init /\ [][NextTokens]_vars

\* a scan during which the caller also sets the language itself
NextLanguage ==
    \/ PitchesNext
    \/ \E lang \in LanguageArgs : SetLanguage(lang)

\* PitchIterator(source) for the shorter token streams
InitLanguage ==
    /\ InitCodecIdle
    /\ InitArithIdle
    /\ source \in SourcesUpTo(MaxLangLen)
    /\ srcPos = 0
    /\ tokPc = "start"
    /\ language = setLanguage("", "nederlands").language
    /\ pitPc = "start"
    /\ pitTok = None
    /\ out = << >>
    /\ lastWrite = NoWrite
    /\ langCall = NoLangCall

SpecLanguage == InitLanguage /\ [][NextLanguage]_vars

(***************************************************************************)
(* Notions the properties below are stated in.                             *)
(***************************************************************************)
\* the token was yielded as an item of its own
EmittedAsToken(t) == \E i \in 1..Len(out) : out[i].kind = "token" /\ out[i].tok = t

\* how many items of out are the token t itself
TimesEmitted(t) ==
    Cardinality({i \in 1..Len(out) : out[i].kind = "token" /\ out[i].tok = t})

\* how many items of out are a pitch made of t (its note token, or a token the
\* inner loop took)
TimesAbsorbed(t) ==
    Cardinality({i \in 1..Len(out) :
                    /\ out[i].kind = "pitch"
                    /\ \E a \in 1..Len(out[i].absorbed) : out[i].absorbed[a] = t})

\* the items of out are in the order of the source
InSourceOrder == \A i, j \in 1..Len(out) : i < j => out[i].tok.pos <= out[j].tok.pos

\* the token at place k of the source is the one a directive reads as its
\* language name: a live \include or \language keyword precedes it with only
\* whitespace and quote marks between
Skippable(t) == t.cls = "Space" \/ t.text = "\""

RECURSIVE IsCandidate(_, _)
IsCandidate(src, k) ==
    /\ ~Skippable(src[k])
    /\ \E d \in 1..(k - 1) :
          /\ src[d].cls = "Keyword"
          /\ src[d].text \in {"\\include", "\\language"}
          /\ ~IsCandidate(src, d)
          /\ \A m \in (d + 1)..(k - 1) : Skippable(src[m])

\* the identifier of the last LanguageName marker among the first n items of
\* out, "nederlands" when there is none
RECURSIVE MarkerLanguage(_)
MarkerLanguage(n) ==
    IF n = 0 THEN "nederlands"
    ELSE IF out[n].kind = "token" /\ out[n].tok.cls = "LanguageName"
         THEN out[n].tok.text
         ELSE MarkerLanguage(n - 1)

\* the language in force where the token t stands: that of the last marker
\* yielded for a place before t
LanguageAt(t) ==
    MarkerLanguage(Cardinality({i \in 1..Len(out) : out[i].tok.pos < t.pos}))

\* what the reader of a language makes of a spelling
Decoded(lang, text) == PitchReaderCall(NewPitchReader(pitchInfo[lang]), text)

(***************************************************************************)
(* Properties of pitches() and write().                                    *)
(***************************************************************************)
\* C1: once pitches() has run to its end, every Note token that reached it
\* (it is not a directive's language name) and that the reader of the language
\* in force does not decode is in the output exactly once, as itself, and the
\* output is in source order; it is not dropped and is no pitch's note token.
C1_UndecodedNotePassedThrough ==
    pitPc = "done" =>
        /\ InSourceOrder
        /\ \A k \in 1..Len(source) :
              ( /\ source[k].cls = "Note"
                /\ ~IsCandidate(source, k)
                /\ Decoded(LanguageAt(source[k]), source[k].text) = None )
              => /\ TimesEmitted(source[k]) = 1
                 /\ TimesAbsorbed(source[k]) = 0

\* C2: a write() with the default target language of a pitch the caller left
\* as pitches() yielded it raises nothing and issues no buffer operation.
C2_UntouchedWriteIssuesNoEdit ==
    ( /\ lastWrite.called
      /\ lastWrite.edit = Some(Untouched)
      /\ lastWrite.target = None )
    => lastWrite.exc = None /\ lastWrite.ops = << >>

\* C3: no token taken into a yielded pitch (its note token, an octave mark or
\* octave check it recorded, whitespace or an accidental it skipped) is also
\* yielded as an item of its own, and every source token is part of at most
\* one output item.
C3_AbsorbedTokensNotReemitted ==
    /\ \A i \in 1..Len(out) :
          out[i].kind = "pitch" =>
              \A a \in 1..Len(out[i].absorbed) : ~EmittedAsToken(out[i].absorbed[a])
    /\ \A k \in 1..Len(source) :
          TimesEmitted(source[k]) + TimesAbsorbed(source[k]) <= 1

\* C4: a write() in which the writer raises PitchNameNotAvailable has issued
\* no buffer operation, whatever else the caller changed, and self.language
\* is what it was before the call.
C4_WriteAtomicOnEncodeFailure ==
    (lastWrite.called /\ lastWrite.exc # None)
    => lastWrite.ops = << >> /\ language = lastWrite.language

\* C4 witness: the writer raised although the caller had also moved the octave
\* and cleared an octave check that was there
C4_FailedWriteWithOctaveEdits ==
    /\ lastWrite.called
    /\ lastWrite.exc # None
    /\ lastWrite.pitch[1].octave # lastWrite.pitch[1].origOctave
    /\ lastWrite.pitch[1].origOctaveCheck # None
    /\ lastWrite.pitch[1].octaveCheck = None

(***************************************************************************)
(* Properties of the codecs.                                               *)
(***************************************************************************)
\* a language has a name for the alteration: it is 0 or its slot is not empty
Available(lang, alter) == alter = 0 \/ pitchInfo[lang].accs[alter + 4 + 1] # ""

\* s with the first rule whose canonical prefix it starts with applied, once
OneReplacement(rules, s) ==
    LET hits == {k \in 1..Len(rules) : StartsWith(s, rules[k][1])}
    IN  IF hits = {} THEN s
        ELSE LET k == CHOOSE h \in hits : \A g \in hits : h <= g
             IN  rules[k][2] \o DropFirst(s, Len(rules[k][1]))

\* C5: in every language, aliases included, and for every note and every
\* alteration the language has a name for, the writer returns a spelling, and
\* the same language's reader decodes that spelling to exactly (note, alter).
C5_CodecRoundTrip ==
    /\ (call.op = "write" /\ Available(call.language, call.alter))
          => call.written.exc = None
    /\ call.op = "roundtrip" => call.decoded = <<call.note, call.alter>>

\* C5 witness: an alias language, a spelling the writer respelled
\* (h + eses written "bes"), read back as b double flat
C5_RoundTripOfRespelledAlias ==
    /\ call.op = "roundtrip"
    /\ call.language = "norsk"
    /\ call.text = "bes"
    /\ call.decoded = <<6, 0 - 4>>

\* C9: the writer raises PitchNameNotAvailable exactly when alter is not 0 and
\* the language's slot alter*4+4 is empty, and the exception carries the
\* language asked for; otherwise it returns base name plus suffix with the
\* first matching prefix replacement applied once.  nederlands (0, +1/2) is
\* "cis", english (0, +1/4) is "cqs", espanol (0, +1/4) raises with "espanol".
C9_EncodeAvailability ==
    call.op = "write" =>
        /\ call.written.exc # None <=> ~Available(call.language, call.alter)
        /\ ~Available(call.language, call.alter)
              => call.written.exc = Some(call.language)
        /\ Available(call.language, call.alter)
              => call.written.ret =
                    OneReplacement(pitchInfo[call.language].replacements,
                        pitchInfo[call.language].names[call.note + 1]
                        \o pitchInfo[call.language].accs[call.alter + 4 + 1])
        /\ (call.language = "nederlands" /\ call.note = 0 /\ call.alter = 2)
              => call.written = Returned("cis")
        /\ (call.language = "english" /\ call.note = 0 /\ call.alter = 1)
              => call.written = Returned("cqs")
        /\ (call.language = "espanol" /\ call.note = 0 /\ call.alter = 1)
              => call.written = Raised("espanol")

\* C9 witness: espanol has no name for c quarter-sharp
C9_EspanolQuarterSharpRaises ==
    /\ call.op = "write"
    /\ call.language = "espanol"
    /\ call.note = 0
    /\ call.alter = 1
    /\ call.written.exc = Some("espanol")

(***************************************************************************)
(* Properties of the octave arithmetic.  p and prev are two Pitch objects.  *)
(***************************************************************************)
\* C10: makeAbsolute(prev) followed by makeRelative(prev), and makeRelative
\* followed by makeAbsolute, leave p as it was, octave included; either
\* operation alone leaves p.note, p.alter and prev as they were.
C10_AbsoluteRelativeInverse ==
    /\ arith.prev = arith.prev0
    /\ arith.p.note = arith.p0.note
    /\ arith.p.alter = arith.p0.alter
    /\ arith.ops \in {<<"abs", "rel">>, <<"rel", "abs">>} => arith.p = arith.p0

\* C10 witness: a round trip over a downward leap of more than a fourth (the
\* dividend p.note - prev.note + 3 is negative) from a previous pitch that is
\* not in octave 0
C10_RoundTripOverNegativeDividend ==
    /\ arith.ops = <<"abs", "rel">>
    /\ arith.p0.note - arith.prev0.note + 3 < 0
    /\ arith.prev0.octave # 0
    /\ arith.p.octave = arith.p0.octave

(***************************************************************************)
(* Properties of tokens(): the language directives.  In SpecTokens every   *)
(* item of out is a token (or marker) and out[i].lang is self.language as   *)
(* the caller finds it when the item arrives.                               *)
(***************************************************************************)
\* a token's text with a trailing ".ly" removed
WithoutLy(text) ==
    IF Len(text) >= 3 /\ SubSeq(text, Len(text) - 2, Len(text)) = ".ly"
    THEN SubSeq(text, 1, Len(text) - 3)
    ELSE text

\* item i is a \language or \include keyword (so tokens() met it in its
\* default state: a keyword read as a directive's language name is no item)
IsDirectiveItem(i) ==
    /\ out[i].tok.cls = "Keyword"
    /\ out[i].tok.text \in {"\\language", "\\include"}

\* the place in the source of a token of the source
SrcIndex(t) == CHOOSE k \in 1..Len(source) : source[k] = t

\* the place of the first token after place k that is neither whitespace nor
\* a quote mark; Len(source) + 1 when there is none
FirstOther(k) ==
    CHOOSE j \in (k + 1)..(Len(source) + 1) :
        /\ j <= Len(source) => ~Skippable(source[j])
        /\ \A m \in (k + 1)..(j - 1) : Skippable(source[m])

\* the directive at item i has read its language name, the token at place j
DirectiveRead(i, j) ==
    /\ j = FirstOther(SrcIndex(out[i].tok))
    /\ j <= srcPos

\* C6: after a \language or \include keyword the whitespace and quote-mark
\* tokens that follow are yielded unchanged; if the first other token, less a
\* trailing ".ly", is a registered language, self.language becomes that
\* language, a LanguageName with that identifier and the token's pos is
\* yielded in the token's place, and the token after it is yielded as any
\* token is in the default state, the language staying as set.
C6_RecognizedDirective ==
    \A i \in 1..Len(out) :
        IsDirectiveItem(i) =>
            LET k == SrcIndex(out[i].tok)
                j == FirstOther(k)
                m == i + (j - k)
            IN  /\ \A n \in (k + 1)..(j - 1) :
                      n <= srcPos => out[i + (n - k)] = TokenItem(source[n], out[i].lang)
                /\ (DirectiveRead(i, j) /\ WithoutLy(source[j].text) \in Languages)
                      => /\ Len(out) >= m
                         /\ out[m].tok = LanguageName(WithoutLy(source[j].text),
                                                      source[j].pos)
                         /\ out[m].lang = WithoutLy(source[j].text)
                         /\ Len(out) = m => language = WithoutLy(source[j].text)
                         /\ ~EmittedAsToken(source[j])
                         /\ j + 1 <= srcPos
                               => out[m + 1] = TokenItem(source[j + 1],
                                                         WithoutLy(source[j].text))

\* C6 witness: \include, a space, then "english.ly": the marker "english" has
\* been yielded after the space and the language is english
C6_IncludeOfEnglishRecognized ==
    /\ Len(out) = 3
    /\ out[1].tok.text = "\\include"
    /\ out[2].tok.cls = "Space"
    /\ out[3].tok.cls = "LanguageName"
    /\ out[3].tok.text = "english"
    /\ language = "english"

C8_LanguagePersistence ==
    /\ language = MarkerLanguage(Len(out))
    /\ \A i \in 1..Len(out) :
          /\ out[i].lang = MarkerLanguage(i)
          /\ out[i].kind = "pitch"
                => /\ <<out[i].pitch[1].note, out[i].pitch[1].alter>>
                        = Decoded(MarkerLanguage(i - 1), out[i].tok.text)
                   /\ (out[i].tok.text = "h" /\ MarkerLanguage(i - 1) = "deutsch")
                         => out[i].pitch[1].note = 6

\* C8 witness: the marker deutsch, then the Note h yielded as a pitch on b
C8_DeutschHDecoded ==
    /\ Len(out) = 3
    /\ out[2].tok = LanguageName("deutsch", out[2].tok.pos)
    /\ out[3].kind = "pitch"
    /\ out[3].tok.text = "h"
    /\ out[3].pitch[1].note = 6
    /\ language = "deutsch"

(***************************************************************************)
(* Properties of the octave conversions (SpecOctave).                      *)
(***************************************************************************)
\* how many characters of s are the character c
MarksOf(s, c) == Cardinality({i \in 1..Len(s) : SubSeq(s, i, i) = c})

\* C11: octaveToString(n) is -n lower marks for n < 0 and n raise marks
\* otherwise (none for 0); octaveToNum of any string of marks is its raise
\* marks less its lower marks; and octaveToNum(octaveToString(n)) = n.
C11_OctaveSymmetry ==
    /\ (conv.ops # << >> /\ conv.ops[1] = "str")
          => /\ Len(conv.s) = (IF conv.n < 0 THEN 0 - conv.n ELSE conv.n)
             /\ MarksOf(conv.s, IF conv.n < 0 THEN "," ELSE "'") = Len(conv.s)
    /\ (conv.ops # << >> /\ conv.ops[Len(conv.ops)] = "num")
          => conv.num = MarksOf(conv.s, "'") - MarksOf(conv.s, ",")
    /\ conv.ops = <<"str", "num">> => conv.num = conv.n

\* C11 witness: a negative octave taken to lower marks and back
C11_LowerMarksRoundTrip ==
    /\ conv.ops = <<"str", "num">>
    /\ conv.n = 0 - 2
    /\ conv.s = ",,"
    /\ conv.num = 0 - 2

(***************************************************************************)
(* Properties of the aliases (SpecAlias).                                  *)
(***************************************************************************)
\* C12: whatever the caches hold, what a call in one language of an alias
\* pair returned is what the codec for the other language of the pair (the
\* cached instance, or a new one) returns for the same input: the same decode
\* result for a spelling, the same spelling for a (note, alter).
C12_AliasEquivalence ==
    \A other \in callLangs :
        /\ call.language \in callLangs
        /\ other # call.language
        => /\ call.op \in {"read", "roundtrip"}
                => call.decoded
                     = PitchReaderCall(pitchReader(pitchReaders, other).inst, call.text)
           /\ call.op \in {"write", "roundtrip"}
                => /\ call.written.exc = None
                   /\ call.written.ret
                        = PitchWriterCall(pitchWriter(pitchWriters, other).inst,
                                          call.note, call.alter).ret
                   /\ PitchWriterCall(pitchWriter(pitchWriters, other).inst,
                                      call.note, call.alter).exc = None

\* C12 witness: norsk decodes "b" as deutsch does (b flat), each of the two
\* identifiers having its own reader in the cache
C12_NorskReadsAsDeutsch ==
    /\ callLangs = {"norsk", "deutsch"}
    /\ call.op = "read"
    /\ call.language = "norsk"
    /\ call.text = "b"
    /\ call.decoded = <<6, 0 - 2>>
    /\ pitchReaders["deutsch"] # None
    /\ pitchReaders["norsk"] # None

(***************************************************************************)
(* The nederlands reader on "es" (SpecCodec).                              *)
(***************************************************************************)
\* the last call was pitchReader("nederlands")("es")
ReadEsInNederlands ==
    /\ call.op = "read"
    /\ call.language = "nederlands"
    /\ call.text = "es"

\* C13 as stated: in nederlands the reader decodes "es" as note 5 (a) with
\* alter -1/2.
C13_EsDecodesAsAFlat == ReadEsInNederlands => call.decoded = <<5, 0 - 2>>

\* C13 amended: in nederlands the reader decodes "es" as note 2 (e) with
\* alter -1/2: "es" is rewritten to "ees", which is e with the accidental es.
C13_EsDecodesAsEFlat == ReadEsInNederlands => call.decoded = <<2, 0 - 2>>

\* C13 witness: the nederlands reader, built and cached, has decoded "es"
C13_EsDecoded ==
    /\ ReadEsInNederlands
    /\ pitchReaders["nederlands"] # None
    /\ call.decoded # None

(***************************************************************************)
(* Properties of pitches(): the end of a pitch's decoration (Spec).        *)
(***************************************************************************)
\* the place of the first token after place k that is no octave mark,
\* whitespace or accidental: the token that ends the decoration of the note
\* at k; Len(source) + 1 when the source ends first
DecorationEnd(k) ==
    CHOOSE j \in (k + 1)..(Len(source) + 1) :
        /\ j <= Len(source) => source[j].cls \notin {"Octave", "Space", "Accidental"}
        /\ \A m \in (k + 1)..(j - 1) :
              source[m].cls \in {"Octave", "Space", "Accidental"}

\* how many items of out are a pitch whose note token is t
TimesPitchOf(t) ==
    Cardinality({i \in 1..Len(out) : out[i].kind = "pitch" /\ out[i].tok = t})

\* pitches() has gone on after yielding item i
ResumedAfter(i) == Len(out) > i \/ pitPc = "done"

\* C14: when the decoration of a yielded pitch was ended by a token that is
\* no octave check (nor octave mark, whitespace or accidental), then, once
\* pitches() has gone on, the item right after the pitch is that token: the
\* next pitch, made of it, or the token itself; and it is in the output
\* exactly once.
C14_TerminatorReexamined ==
    \A i \in 1..Len(out) :
        LET j == DecorationEnd(SrcIndex(out[i].tok))
        IN  ( /\ out[i].kind = "pitch"
              /\ ResumedAfter(i)
              /\ j <= Len(source)
              /\ source[j].cls # "OctaveCheck" )
            => /\ Len(out) > i
               /\ out[i + 1].tok = source[j]
               /\ out[i + 1].kind = "token" => out[i + 1] = TokenItem(source[j], out[i].lang)
               /\ TimesEmitted(source[j]) + TimesPitchOf(source[j]) = 1

(***************************************************************************)
(* Properties of pitches(): the end of the input (Spec).                   *)
(***************************************************************************)
\* what pitches() still has to do: two for every token not yet drawn, one for
\* a token it holds after a pitch, one for not having returned
Remaining ==
    2 * (Len(source) - srcPos)
      + (IF pitPc = "pitch" /\ pitTok # None THEN 1 ELSE 0)
      + (IF pitPc = "done" THEN 0 ELSE 1)

\* every item is a token of the source, a LanguageName marker or a pitch: none
\* is None or stands for one
NoPlaceholderItem ==
    \A i \in 1..Len(out) :
        \/ /\ out[i].kind = "token"
           /\ \/ \E k \in 1..Len(source) : out[i].tok = source[k]
              \/ /\ out[i].tok.cls = "LanguageName"
                 /\ out[i].tok.text \in Languages
        \/ /\ out[i].kind = "pitch"
           /\ out[i].pitch # None
           /\ out[i].tok.cls = "Note"

\* the note at place k reached pitches(), decodes, and the source ends before
\* anything ends its decoration
EndsInDecoration(k) ==
    /\ source[k].cls = "Note"
    /\ ~IsCandidate(source, k)
    /\ Decoded(LanguageAt(source[k]), source[k].text) # None
    /\ DecorationEnd(k) = Len(source) + 1

\* pitches() has returned with every pitch the source ended in yielded once
LastPitchEmitted ==
    pitPc = "done" =>
        \A k \in 1..Len(source) :
            EndsInDecoration(k)
               => TimesPitchOf(source[k]) = 1 /\ TimesEmitted(source[k]) = 0

\* C15: every step of pitches() brings it nearer to its return (it returns
\* after at most 2 * Len(source) + 1 steps); no item it yields is None or a
\* placeholder; and when it has returned, a pitch whose decoration the end of
\* the source cut short, the note being the last token included, has been
\* yielded exactly once.
C15_TerminatesEmittingLastPitch ==
    /\ [][(out' # out \/ pitPc' # pitPc)
             => (Remaining' < Remaining /\ Remaining' >= 0)]_vars
    /\ [](NoPlaceholderItem /\ LastPitchEmitted)

\* C15 witness: the source c ' has ended inside the decoration of c and
\* pitches() has returned, the pitch c' yielded
C15_SourceEndedInDecoration ==
    /\ pitPc = "done"
    /\ Len(source) = 2
    /\ EndsInDecoration(1)
    /\ source[2].cls = "Octave"
    /\ out[1].kind = "pitch"
    /\ out[1].pitch[1].octave = 1
    /\ Remaining = 0

(***************************************************************************)
(* Properties of pitches() and write(): the language of a pitch (Spec).    *)
(***************************************************************************)
\* pitches() has just handed the caller a pitch: it is the last item and the
\* generator is suspended at yield p
PitchInHand ==
    /\ out # << >>
    /\ out[Len(out)].kind = "pitch"
    /\ pitPc = "pitch"

\* C16: when pitches() hands over a pitch, self.language is the language the
\* note token was read in (the tokens drawn after the note, the one that ends
\* the decoration included, have not changed it), the pitch is what the
\* reader of self.language makes of the note token, and a write() with the
\* default target language made then uses the writer of that language.
C16_LookaheadKeepsLanguage ==
    /\ PitchInHand
          => /\ language = out[Len(out)].lang
             /\ <<out[Len(out)].pitch[1].note, out[Len(out)].pitch[1].alter>>
                   = Decoded(language, out[Len(out)].tok.text)
    /\ (lastWrite.called /\ lastWrite.target = None)
          => /\ lastWrite.language = out[lastWrite.item].lang
             /\ pitchWriters[out[lastWrite.item].lang] # None
             /\ lastWrite.exc # None => lastWrite.exc = Some(out[lastWrite.item].lang)

\* C16 witness: c ' \language: the pitch c' is in the caller's hands, the
\* keyword that ended its decoration already drawn, and has been written back
\* in nederlands
C16_WrittenWithKeywordDrawn ==
    /\ PitchInHand
    /\ pitTok # None
    /\ pitTok[1].cls = "Keyword"
    /\ out[Len(out)].pitch[1].octave = 1
    /\ lastWrite.called
    /\ lastWrite.target = None
    /\ lastWrite.language = "nederlands"

(***************************************************************************)
(* Properties of write(): the edits (Spec).  They are stated from the      *)
(* tokens the written pitch was made of, not from the slices it carries.    *)
(***************************************************************************)
\* the tokens of class cls among those item i was made of, in source order
TokensOfClass(i, cls) == SelectSeq(out[i].absorbed, LAMBDA t : t.cls = cls)

\* the octave mark that counts for item i is the last one read
HasOctaveMark(i) == TokensOfClass(i, "Octave") # << >>
OctaveMark(i) == TokensOfClass(i, "Octave")[Len(TokensOfClass(i, "Octave"))]

HasCheck(i) == TokensOfClass(i, "OctaveCheck") # << >>
CheckToken(i) == TokensOfClass(i, "OctaveCheck")[1]

\* the spelling the writer of a language gives
Encoded(lang, note, alter) ==
    PitchWriterCall([NewPitchWriter(pitchInfo[lang]) EXCEPT !.language = lang],
                    note, alter)

\* the edit of the note token of item i, for the pitch p written in lang
ExpectedNoteEdit(i, p, lang) ==
    IF Encoded(lang, p.note, p.alter).ret # out[i].tok.text
    THEN <<[op |-> "replace", start |-> out[i].tok.pos, stop |-> out[i].tok.end,
            text |-> Encoded(lang, p.note, p.alter).ret]>>
    ELSE << >>

\* the edit of the octave of item i: at the octave mark, or at the empty span
\* right after the note token when there was no mark
ExpectedOctaveEdit(i, p) ==
    IF p.octave # (IF HasOctaveMark(i)
                   THEN MarksOf(OctaveMark(i).text, "'") - MarksOf(OctaveMark(i).text, ",")
                   ELSE 0)
    THEN <<[op |-> "replace",
            start |-> IF HasOctaveMark(i) THEN OctaveMark(i).pos ELSE out[i].tok.end,
            stop |-> IF HasOctaveMark(i) THEN OctaveMark(i).end ELSE out[i].tok.end,
            text |-> octaveToString(p.octave)]>>
    ELSE << >>

\* the edit of the octave check of item i
ExpectedCheckEdit(i, p) ==
    IF ~HasCheck(i) THEN << >>
    ELSE IF p.octaveCheck = None
    THEN <<[op |-> "delete", start |-> CheckToken(i).pos, stop |-> CheckToken(i).end,
            text |-> ""]>>
    ELSE <<[op |-> "replace", start |-> CheckToken(i).pos, stop |-> CheckToken(i).end,
            text |-> "=" \o octaveToString(p.octaveCheck[1])]>>

\* the language write() encodes in
WriteLanguage == IF lastWrite.target = None THEN lastWrite.language
                 ELSE lastWrite.target[1]

\* C17: a write() that did not raise has issued exactly: a replace of the
\* note token's span iff the spelling in the target language differs from the
\* token's text; then a replace of the octave span by octaveToString(octave)
\* iff the octave differs from the one read; then, iff an octave check was
\* read, a delete of its span when octaveCheck is None, else a replace of it
\* by "=" and octaveToString(octaveCheck).  With no octave check read there is
\* no edit for it even when the caller set octaveCheck.
C17_WriteBackEditSet ==
    (lastWrite.called /\ lastWrite.exc = None)
    => /\ lastWrite.ops
            = ExpectedNoteEdit(lastWrite.item, lastWrite.pitch[1], WriteLanguage)
              \o ExpectedOctaveEdit(lastWrite.item, lastWrite.pitch[1])
              \o ExpectedCheckEdit(lastWrite.item, lastWrite.pitch[1])
       /\ (~HasCheck(lastWrite.item) /\ lastWrite.pitch[1].octaveCheck # None)
             => /\ Len(lastWrite.ops) <= 2
                /\ \A o \in 1..Len(lastWrite.ops) :
                      /\ lastWrite.ops[o].op = "replace"
                      /\ ~StartsWith(lastWrite.ops[o].text, "=")

\* C17 witness: c ' =' written back one step up, one octave up and with the
\* check cleared: the note replaced, the octave replaced, the check deleted
C17_AllThreeEdits ==
    /\ lastWrite.called
    /\ lastWrite.exc = None
    /\ Len(lastWrite.ops) = 3
    /\ lastWrite.ops[1] = [op |-> "replace", start |-> 0, stop |-> 1, text |-> "d"]
    /\ lastWrite.ops[2] = [op |-> "replace", start |-> 1, stop |-> 2, text |-> "''"]
    /\ lastWrite.ops[3].op = "delete"

(***************************************************************************)
(* Properties of the octave arithmetic: the nearest octave (SpecArith).    *)
(***************************************************************************)
\* the place of a pitch counted in scale steps
Steps(p) == 7 * p.octave + p.note

\* C18: right after p.makeAbsolute(prev) on a pitch whose relative octave was
\* k, the distance in scale steps from prev to p, less the 7 * k the octave
\* marks ask for, is between -3 and 3: with no marks the pitch is within a
\* fourth of prev.
C18_NearestOctave ==
    arith.ops = <<"abs">>
    => /\ arith.prev = arith.prev0
       /\ (Steps(arith.p) - Steps(arith.prev)) - 7 * arith.p0.octave \in (0 - 3)..3
       /\ arith.p0.octave = 0
             => Steps(arith.p) - Steps(arith.prev) \in (0 - 3)..3

\* C18 witness: c made absolute after b with no octave marks: the dividend
\* 0 - 6 + 3 is negative and c is put one step above b, in the next octave
C18_CAfterB ==
    /\ arith.ops = <<"abs">>
    /\ arith.p0 = Pitch(0, 0, 0)
    /\ arith.prev = Pitch(6, 0, 1)
    /\ arith.p.octave = 2
    /\ Steps(arith.p) - Steps(arith.prev) = 1

(***************************************************************************)
(* Properties of the language state (SpecLanguage).                        *)
(***************************************************************************)
\* C19: self.language is always a key of pitchInfo: "nederlands" after
\* construction; after setLanguage(arg) the argument when it is a key and
\* what it was before otherwise; and at every point of a scan, wherever the
\* caller stops it.  Every pitch was read in a registered language.
C19_LanguageRegistered ==
    /\ language \in DOMAIN pitchInfo
    /\ (~langCall.called /\ srcPos = 0) => language = "nederlands"
    /\ langCall.called
          => /\ langCall.before \in DOMAIN pitchInfo
             /\ langCall.ret = (langCall.arg \in DOMAIN pitchInfo)
             /\ srcPos = 0
                   => language = (IF langCall.arg \in DOMAIN pitchInfo
                                  THEN langCall.arg ELSE langCall.before)
    /\ \A i \in 1..Len(out) : out[i].lang \in DOMAIN pitchInfo

\* C19 witness: in the middle of a scan in deutsch the caller has called
\* setLanguage with a name that is no key, and the language is still deutsch
C19_UnknownNameRefused ==
    /\ langCall.called
    /\ langCall.arg = "latin"
    /\ ~langCall.ret
    /\ langCall.before = "deutsch"
    /\ language = "deutsch"
    /\ pitPc \in {"token", "pitch"}

(***************************************************************************)
(* Properties of the reader's replacements (SpecCodec).                    *)
(***************************************************************************)
\* the replacement pairs (long form, short form) of a language
Rules(lang) == pitchInfo[lang].replacements

\* text with its short-form prefix of rule k put back to the long form
RuleApplied(lang, k, text) ==
    Rules(lang)[k][1] \o SubSeq(text, Len(Rules(lang)[k][2]) + 1, Len(text))

\* rule k applies to text: text starts with the rule's short form
RuleApplies(lang, k, text) ==
    /\ Len(text) >= Len(Rules(lang)[k][2])
    /\ SubSeq(text, 1, Len(Rules(lang)[k][2])) = Rules(lang)[k][2]

\* C20: the text the reader matches is the input itself, or the input with
\* the prefix of exactly one rule rewritten; and where a rule applies to the
\* input, no later rule applies to what it leaves.
C20_AtMostOneRewrite ==
    call.op \in {"read", "roundtrip"}
    => /\ \/ /\ call.rewritten = call.text
             /\ \A k \in 1..Len(Rules(call.language)) :
                   ~RuleApplies(call.language, k, call.text)
          \/ \E k \in 1..Len(Rules(call.language)) :
                /\ RuleApplies(call.language, k, call.text)
                /\ call.rewritten = RuleApplied(call.language, k, call.text)
       /\ \A k, j \in 1..Len(Rules(call.language)) :
             (k < j /\ RuleApplies(call.language, k, call.text))
                => ~RuleApplies(call.language, j,
                                RuleApplied(call.language, k, call.text))
       /\ Cardinality({k \in 1..Len(Rules(call.language)) :
                          RuleApplies(call.language, k, call.text)}) <= 1

\* C20 witness: deutsch reads "bes" as "heses" (the rule for b applied, once)
\* and decodes b double flat
C20_BesRewrittenOnce ==
    /\ call.op = "read"
    /\ call.language = "deutsch"
    /\ call.text = "bes"
    /\ call.rewritten = "heses"
    /\ call.decoded = <<6, 0 - 4>>

====
